---- MODULE Spec2Model ----
(***************************************************************************)
(* Zenith Memory server (src/README.md, the express application that       *)
(* starts at line 501) together with the SDK client that talks to it       *)
(* (src/unnamed/part_000).                                                 *)
(*                                                                         *)
(* The server keeps three plain JavaScript objects, users, buckets and     *)
(* databases; every HTTP handler is one action that reads the request,     *)
(* updates the objects as the handler's code does. The HTTP response of a  *)
(* handler is a function of the request and the state it runs in: it is    *)
(* the res field of what the handler's operator returns.                   *)
(***************************************************************************)
EXTENDS Integers, Sequences, FiniteSets, TLC

VARIABLES
    users,      \* README.md:518  email -> user record
    buckets,    \* README.md:517  bucketId -> bucket record
    databases,  \* README.md:516  bucketId -> (path -> item)
    uuidCount,  \* number of values uuidv4() has returned so far
    now,        \* the server's clock, in hours (new Date(), jwt's clock)
    jwt,        \* part_000:12    the token each SDK client holds
    inflight,   \* the requests that arrived and whose handler has not run yet
    responses   \* the requests that were in flight, each with its response

vars == <<users, buckets, databases, uuidCount, now, jwt, inflight, responses>>

-----------------------------------------------------------------------------
(* Bounds of the model. *)

\* uuidv4() is called at most MaxUuid times (users plus buckets).
MaxUuid == 3

\* The clock stops at MaxTime hours.
MaxTime == 24

\* One step of the clock, in hours.
TickHours == 12

\* A batch-write request carries at most MaxBatch items.
MaxBatch == 2

\* At most MaxRequests requests are sent while others are in flight.
MaxRequests == 3

(* Program constants. *)

\* README.md:561,585  expiresIn: '24h'
ExpiresInHours == 24

\* README.md:509
JWT_SECRET == "zenith-secret-key-change-in-production"

-----------------------------------------------------------------------------
(* Inputs the requests are drawn from. *)

\* A field that is absent from a request body. The handlers only test such a
\* field with !field, which is true for the absent field and for "".
Missing == ""

Clients == {"c1"}

Emails == {"a@x.com", "q@x.com", "constructor"}

Passwords == {"pw", "pw2"}

BucketNames == {"b1"}

\* req.params[0] of the routes /api/buckets/:bucketId/data/* : the SDK's path
\* without its leading slash. "u" is a proper prefix of "u/1".
WritePaths == {"u", "u/1"}

\* The paths that are read and deleted: those that are written, and
\* "constructor", a property every JavaScript object inherits.
Paths == WritePaths \cup {"constructor"}

\* A generator that returns the same value every time.
UuidSame(n) == "uuid-1"

\* uuidv4(): the n-th value it returns. Distinct calls return distinct values.
Uuid(n) == "uuid-" \o ToString(n)

\* :bucketId of a request: every identifier uuidv4 can return, and the name of
\* an inherited property.
BucketIds == {Uuid(n) : n \in 1..MaxUuid} \cup {"constructor"}

-----------------------------------------------------------------------------
(* JavaScript values. *)

Undefined == [kind |-> "undefined"]

Null == [kind |-> "null"]

JNum(n) == [kind |-> "number", num |-> n]

\* The object {n: <n>}.
JObj(n) == [kind |-> "object", n |-> n]

\* Request payloads: the object {n: 1} of the write scenario and an object
\* whose JSON text is one character longer.
Payloads == {JObj(1), JObj(10)}

\* JSON.stringify(data), README.md:660,814. undefined has no JSON text:
\* JSON.stringify(undefined) is undefined.
Stringify(data) ==
    CASE data.kind = "number" -> ToString(data.num)
      [] data.kind = "object" -> "{\"n\":" \o ToString(data.n) \o "}"
      [] data.kind = "null" -> "null"
      [] OTHER -> Missing

\* JSON.stringify(data).length throws a TypeError when data is undefined.
HasJson(data) == data.kind # "undefined"

\* A plain object {} is modelled by the sequence of its own properties
\* [key, value] in insertion order, which is the order of Object.keys,
\* Object.values and Object.entries for keys that are not array indices.
EmptyObject == << >>

\* The properties an object literal inherits from Object.prototype.
ObjectPrototypeKeys ==
    {"constructor", "toString", "valueOf", "hasOwnProperty", "__proto__"}

Index(obj, key) ==
    IF \E i \in 1..Len(obj) : obj[i].key = key
    THEN CHOOSE i \in 1..Len(obj) : obj[i].key = key
    ELSE 0

HasOwn(obj, key) == Index(obj, key) # 0

\* obj[key] for a key that is an own property.
Own(obj, key) == obj[Index(obj, key)].value

\* obj[key]: the own property, else the inherited one, else undefined.
Get(obj, key) ==
    IF HasOwn(obj, key) THEN [kind |-> "own", value |-> Own(obj, key)]
    ELSE IF key \in ObjectPrototypeKeys THEN [kind |-> "inherited"]
    ELSE Undefined

\* !value is false for every object and function, true for undefined.
Truthy(v) == v.kind # "undefined"

\* obj[key] = value: an own property keeps its place, a new one goes last.
Set(obj, key, value) ==
    IF HasOwn(obj, key)
    THEN [obj EXCEPT ![Index(obj, key)] = [key |-> key, value |-> value]]
    ELSE Append(obj, [key |-> key, value |-> value])

\* delete obj[key]: removes an own property, does nothing otherwise.
Delete(obj, key) ==
    LET i == Index(obj, key)
    IN  IF i = 0 THEN obj ELSE SubSeq(obj, 1, i - 1) \o SubSeq(obj, i + 1, Len(obj))

\* Object.keys(obj)
Keys(obj) == [i \in 1..Len(obj) |-> obj[i].key]

\* Object.values(obj)
Values(obj) == [i \in 1..Len(obj) |-> obj[i].value]

-----------------------------------------------------------------------------
(* Responses. *)

\* res.status(code).json({ error: message })
Error(code, message) == [status |-> code, error |-> message]

\* The objects of the server and its uuid generator, as one value.
Store == [users |-> users, buckets |-> buckets, databases |-> databases,
          uuidCount |-> uuidCount]

\* What a handler does: the response it sends and the store it leaves.
Result(response, s) == [res |-> response, store |-> s]

-----------------------------------------------------------------------------
(* Tokens and the authentication middleware. *)

\* A token that carries the login where the user's id belongs.
SignLogin(userId, email, secret) ==
    [kind |-> "jwt", userId |-> email, email |-> email, iat |-> now,
     exp |-> now + ExpiresInHours, key |-> secret]

\* jwt.sign({ userId, email }, JWT_SECRET, { expiresIn: '24h' })
Sign(userId, email, secret) ==
    [kind |-> "jwt", userId |-> userId, email |-> email, iat |-> now,
     exp |-> now + ExpiresInHours, key |-> secret]

\* A string that is no JSON web token.
Garbage == [kind |-> "garbage"]

\* A verification that accepts a token only at the hour of its issue.
VerifiesOnIssue(token) ==
    token.kind = "jwt" /\ token.key = JWT_SECRET /\ now = token.iat

\* A verification that does not look at the expiry.
VerifiesForever(token) == token.kind = "jwt" /\ token.key = JWT_SECRET

\* jwt.verify(token, JWT_SECRET) does not throw: the token is well formed, was
\* signed with JWT_SECRET and has not expired (it has once the clock reaches exp).
Verifies(token) ==
    /\ token.kind = "jwt"
    /\ token.key = JWT_SECRET
    /\ now < token.exp

\* The Authorization header of a request.
NoHeader == [kind |-> "absent"]

Bearer(token) == [kind |-> "bearer", token |-> token]

\* getHeaders() of the SDK: Authorization is set when the client holds a token.
getHeaders(c) == IF Truthy(jwt[c]) THEN Bearer(jwt[c]) ELSE NoHeader

\* A token for the same claims, signed by somebody who does not know JWT_SECRET.
Forged(token) == [token EXCEPT !.key = "not-the-secret"]

\* The headers a request can carry: what an SDK client sends, no header, the
\* scheme without a token, a token that is no JWT, a token signed with another key.
Headers ==
    {getHeaders(c) : c \in Clients}
        \cup {NoHeader, Bearer(Undefined), Bearer(Garbage)}
        \cup {Bearer(Forged(jwt[c])) : c \in {d \in Clients : Truthy(jwt[d])}}

\* authenticateToken: 401 without a token, 403 when jwt.verify throws, else
\* next() with req.userId = decoded.userId (status 0: no response sent yet).
authenticateToken(header) ==
    LET token == IF header.kind = "absent" THEN Undefined ELSE header.token
    IN  IF ~Truthy(token) THEN Error(401, "No token provided")
        ELSE IF Verifies(token) THEN [status |-> 0, userId |-> token.userId]
        ELSE Error(403, "Invalid token")

-----------------------------------------------------------------------------
(* The handlers. Each gives, for a store s and a request, the response and   *)
(* the store the handler leaves; the clock is that of the current state.     *)

\* A check that finds every field present.
AbsentNever(field) == FALSE

\* !email, !password, !name (README.md:544,575,601): the field is absent from
\* the body, or is the empty string.
Absent(field) == field = Missing

\* A registration that never finds the login taken.
UserExistsNever(s, email) == FALSE

\* if (users[email]), README.md:548
UserExists(s, email) == Truthy(Get(s.users, email))

\* README.md:541  POST /api/auth/register
register(s, email, password, name) ==
    IF Absent(email) \/ Absent(password)
    THEN Result(Error(400, "Email and password required"), s)
    ELSE IF UserExists(s, email)
    THEN Result(Error(409, "User already exists"), s)
    ELSE LET userId == Uuid(s.uuidCount + 1)
             user == [userId |-> userId, email |-> email, password |-> password,
                      name |-> IF name = Missing THEN "User" ELSE name,
                      createdAt |-> now]
         IN  Result([status |-> 201, userId |-> userId, email |-> email,
                     token |-> Sign(userId, email, JWT_SECRET)],
                    [s EXCEPT !.users = Set(@, email, user),
                              !.uuidCount = @ + 1])

\* A login that accepts every password of a registered user.
PasswordMatchesAny(user, password) == user.kind = "own"

\* user.password !== password is false, for the user users[email] of login. An
\* inherited property of users is a function, whose password is undefined.
PasswordMatches(user, password) ==
    user.kind = "own" /\ user.value.password = password

\* README.md:572  POST /api/auth/login
login(s, email, password) ==
    IF Absent(email) \/ Absent(password)
    THEN Result(Error(400, "Email and password required"), s)
    ELSE LET user == Get(s.users, email)
         IN  IF ~Truthy(user) \/ ~PasswordMatches(user, password)
             THEN Result(Error(401, "Invalid credentials"), s)
             ELSE Result([status |-> 200, userId |-> user.value.userId,
                          email |-> email,
                          token |-> Sign(user.value.userId, email, JWT_SECRET)],
                         s)

\* README.md:598  POST /api/buckets
createBucket(s, header, name, durability, region) ==
    LET auth == authenticateToken(header)
    IN  IF auth.status # 0 THEN Result(auth, s)
        ELSE IF Absent(name)
        THEN Result(Error(400, "Bucket name required"), s)
        ELSE LET bucketId == Uuid(s.uuidCount + 1)
                 bucket == [bucketId |-> bucketId, name |-> name,
                            owner |-> auth.userId,
                            durability |-> IF durability = Missing
                                           THEN "standard" ELSE durability,
                            region |-> IF region = Missing
                                       THEN "us-east-1" ELSE region,
                            createdAt |-> now, itemCount |-> 0]
             IN  Result([status |-> 201, bucketId |-> bucketId, name |-> name],
                        [s EXCEPT !.buckets = Set(@, bucketId, bucket),
                                  !.databases = Set(@, bucketId, EmptyObject),
                                  !.uuidCount = @ + 1])

\* A listing that does not filter by owner.
AllBuckets(s, userId) == Values(s.buckets)

\* Object.values(buckets).filter(b => b.owner === req.userId), README.md:628,831
userBuckets(s, userId) ==
    LET OwnedBy(b) == b.owner = userId
    IN  SelectSeq(Values(s.buckets), OwnedBy)

\* README.md:627  GET /api/buckets
listBuckets(s, header) ==
    LET auth == authenticateToken(header)
    IN  IF auth.status # 0 THEN Result(auth, s)
        ELSE Result([status |-> 200, buckets |-> userBuckets(s, auth.userId)], s)

\* An ownership check that every principal passes.
IsOwnerAny(bucket, userId) == bucket.kind = "own"

\* buckets[bucketId].owner !== req.userId is false. The owner of an inherited
\* property of buckets is undefined, which is no user's id.
IsOwner(bucket, userId) ==
    bucket.kind = "own" /\ bucket.value.owner = userId

\* The checks every data handler starts with (README.md:644-650 and its
\* copies): the token, then the bucket, then its owner. Status 0: all passed.
Access(s, header, bucketId) ==
    LET auth == authenticateToken(header)
    IN  IF auth.status # 0 THEN auth
        ELSE IF ~Truthy(Get(s.buckets, bucketId))
        THEN Error(404, "Bucket not found")
        ELSE IF ~IsOwner(Get(s.buckets, bucketId), auth.userId)
        THEN Error(403, "Access denied")
        ELSE auth

\* An item whose size is the number of fields of its record.
NewItemFixedSize(data) ==
    [data |-> data, createdAt |-> now, updatedAt |-> now, size |-> 4]

\* The item a write stores, README.md:656-661 and 810-815.
NewItem(data) ==
    [data |-> data, createdAt |-> now, updatedAt |-> now,
     size |-> Len(Stringify(data))]

\* Object.keys(databases[bucketId]).length, README.md:663,723,819
ItemCount(dbs, bucketId) == Len(Keys(Own(dbs, bucketId)))

\* A handler that counts instead of recounting: itemCount + 1 on every mutation.
SetItemCountIncrement(s, bucketId) ==
    [s EXCEPT !.buckets = Set(@, bucketId,
        [Own(@, bucketId) EXCEPT !.itemCount = @ + 1])]

\* A count update that hands the bucket to nobody.
SetItemCountDisown(s, bucketId) ==
    [s EXCEPT !.buckets = Set(@, bucketId,
        [Own(@, bucketId) EXCEPT !.itemCount = ItemCount(s.databases, bucketId),
                                 !.owner = Missing])]

\* buckets[bucketId].itemCount = Object.keys(databases[bucketId]).length
SetItemCount(s, bucketId) ==
    [s EXCEPT !.buckets = Set(@, bucketId,
        [Own(@, bucketId) EXCEPT !.itemCount = ItemCount(s.databases, bucketId)])]

\* if (!databases[bucketId]) databases[bucketId] = {}, README.md:652,804
EnsureDatabase(s, bucketId) ==
    IF Truthy(Get(s.databases, bucketId)) THEN s
    ELSE [s EXCEPT !.databases = Set(@, bucketId, EmptyObject)]

\* A store that keeps the first document of a path and drops later writes.
SetItemOnce(s, bucketId, path, item) ==
    IF HasOwn(Own(s.databases, bucketId), path) THEN s
    ELSE [s EXCEPT !.databases =
             Set(@, bucketId, Set(Own(@, bucketId), path, item))]

\* A write that stores the item at the path in every bucket.
SetItemEverywhere(s, bucketId, path, item) ==
    [s EXCEPT !.databases =
        [i \in 1..Len(@) |-> [@[i] EXCEPT !.value = Set(@, path, item)]]]

\* A write that evicts every other document of the bucket.
SetItemAlone(s, bucketId, path, item) ==
    [s EXCEPT !.databases =
        Set(@, bucketId, <<[key |-> path, value |-> item]>>)]

\* databases[bucketId][path] = item
SetItem(s, bucketId, path, item) ==
    [s EXCEPT !.databases = Set(@, bucketId, Set(Own(@, bucketId), path, item))]

\* delete databases[bucketId][path]
DeleteItem(s, bucketId, path) ==
    [s EXCEPT !.databases = Set(@, bucketId, Delete(Own(@, bucketId), path))]

\* README.md:639  PUT /api/buckets/:bucketId/data/*
putData(s, header, bucketId, path, data) ==
    LET access == Access(s, header, bucketId)
    IN  IF access.status # 0 THEN Result(access, s)
        ELSE IF ~HasJson(data) THEN Result(Error(500, "TypeError"), s)
        ELSE Result([status |-> 200, bucketId |-> bucketId, path |-> path,
                     timestamp |-> now],
                    SetItemCount(SetItem(EnsureDatabase(s, bucketId),
                                         bucketId, path, NewItem(data)),
                                 bucketId))

\* databases[bucketId] && databases[bucketId][path], README.md:687,718
Item(s, bucketId, path) ==
    IF Truthy(Get(s.databases, bucketId))
    THEN Get(Own(s.databases, bucketId), path)
    ELSE Undefined

\* item.data, item.createdAt, ... : undefined when item is an inherited
\* property (a function of Object.prototype).
Field(item, name) == IF item.kind = "own" THEN item.value[name] ELSE Undefined

\* README.md:675  GET /api/buckets/:bucketId/data/*
getData(s, header, bucketId, path) ==
    LET access == Access(s, header, bucketId)
        item == Item(s, bucketId, path)
    IN  IF access.status # 0 THEN Result(access, s)
        ELSE IF ~Truthy(item) THEN Result(Error(404, "Data not found"), s)
        ELSE Result([status |-> 200, path |-> path, data |-> Field(item, "data"),
                     metadata |-> [createdAt |-> Field(item, "createdAt"),
                                   updatedAt |-> Field(item, "updatedAt"),
                                   size |-> Field(item, "size")]], s)

\* README.md:706  DELETE /api/buckets/:bucketId/data/*
deleteData(s, header, bucketId, path) ==
    LET access == Access(s, header, bucketId)
    IN  IF access.status # 0 THEN Result(access, s)
        ELSE IF ~Truthy(Item(s, bucketId, path))
        THEN Result(Error(404, "Data not found"), s)
        ELSE Result([status |-> 200, message |-> "Data deleted successfully"],
                    SetItemCount(DeleteItem(s, bucketId, path), bucketId))

\* A listing that finds no entries.
ItemsNone(s, bucketId) == << >>

\* Object.entries(databases[bucketId]).map(...), README.md:743-748
Items(s, bucketId) ==
    IF Truthy(Get(s.databases, bucketId))
    THEN LET db == Own(s.databases, bucketId)
         IN  [i \in 1..Len(db) |->
                 [path |-> db[i].key, size |-> db[i].value.size,
                  createdAt |-> db[i].value.createdAt,
                  updatedAt |-> db[i].value.updatedAt]]
    ELSE << >>

\* README.md:732  GET /api/buckets/:bucketId/items
listItems(s, header, bucketId) ==
    LET access == Access(s, header, bucketId)
    IN  IF access.status # 0 THEN Result(access, s)
        ELSE Result([status |-> 200, bucketId |-> bucketId,
                     itemCount |-> Len(Items(s, bucketId)),
                     items |-> Items(s, bucketId)], s)

\* An element of the items array of a batch: { path, data }, { path } or null.
BatchItem(path, data) == [kind |-> "item", path |-> path, data |-> data]

\* The callback of items.map throws a TypeError on an item that is null (it
\* cannot be destructured) or whose data is undefined (README.md:809,814).
Throws(item) == item.kind = "null" \/ ~HasJson(item.data)

\* A batch in which the first item of a path wins over the later ones.
RECURSIVE StoreItemsFirstWins(_, _, _)
StoreItemsFirstWins(s, bucketId, items) ==
    IF items = << >> \/ Throws(Head(items)) THEN s
    ELSE StoreItemsFirstWins(SetItemOnce(s, bucketId, Head(items).path,
                                         NewItem(Head(items).data)),
                             bucketId, Tail(items))

\* A batch that stores nothing when one of its items throws.
RECURSIVE StoreItemsAtomic(_, _, _)
StoreItemsAtomic(s, bucketId, items) ==
    IF \E i \in 1..Len(items) : Throws(items[i]) THEN s
    ELSE IF items = << >> THEN s
    ELSE StoreItemsAtomic(SetItem(s, bucketId, Head(items).path,
                                  NewItem(Head(items).data)),
                          bucketId, Tail(items))

\* items.map(item => { databases[bucketId][path] = {...}; ... }), README.md:808:
\* the store after the items were stored in order, up to the first item whose
\* callback throws.
RECURSIVE StoreItems(_, _, _)
StoreItems(s, bucketId, items) ==
    IF items = << >> \/ Throws(Head(items)) THEN s
    ELSE StoreItems(SetItem(s, bucketId, Head(items).path,
                            NewItem(Head(items).data)),
                    bucketId, Tail(items))

\* The items field of a batch-write body when it is an array.
Array(elems) == [kind |-> "array", elems |-> elems]

\* Array.isArray(items)
IsArray(items) == items.kind = "array"

\* README.md:788  POST /api/buckets/:bucketId/batch-write
batchWrite(s, header, bucketId, items) ==
    LET access == Access(s, header, bucketId)
    IN  IF access.status # 0 THEN Result(access, s)
        ELSE IF ~IsArray(items)
        THEN Result(Error(400, "Items must be an array"), s)
        ELSE LET elems == items.elems
                 stored == StoreItems(EnsureDatabase(s, bucketId), bucketId, elems)
             IN  IF \E i \in 1..Len(elems) : Throws(elems[i])
                 THEN Result(Error(500, "TypeError"), stored)
                 ELSE Result([status |-> 200,
                              results |-> [i \in 1..Len(elems) |->
                                  [path |-> elems[i].path, status |-> "success"]],
                              written |-> Len(elems)],
                             SetItemCount(stored, bucketId))

\* array.slice(0, end): the first end elements; a negative end counts from
\* the end of the array.
Slice(seq, end) ==
    LET last == IF end < 0 THEN Len(seq) + end ELSE end
    IN  IF last <= 0 THEN << >>
        ELSE IF last >= Len(seq) THEN seq
        ELSE SubSeq(seq, 1, last)

\* topK || 10, README.md:773: 10 when topK is undefined or 0.
TopK(topK) == IF topK.kind = "undefined" \/ topK.num = 0 THEN 10 ELSE topK.num

\* README.md:760  POST /api/buckets/:bucketId/vector-search
\* random[i] is what the i-th call of Math.random() returns.
vectorSearch(s, header, bucketId, query, topK, random) ==
    LET access == Access(s, header, bucketId)
    IN  IF access.status # 0 THEN Result(access, s)
        ELSE LET entries == IF Truthy(Get(s.databases, bucketId))
                            THEN Slice(Own(s.databases, bucketId), TopK(topK))
                            ELSE << >>
             IN  Result([status |-> 200, query |-> query,
                         results |-> [i \in 1..Len(entries) |->
                             [path |-> entries[i].key,
                              data |-> entries[i].value.data,
                              score |-> random[i]]]], s)

\* userBuckets.reduce((sum, b) => sum + b.itemCount, 0), README.md:832
RECURSIVE SumItemCount(_)
SumItemCount(bkts) ==
    IF bkts = << >> THEN 0 ELSE Head(bkts).itemCount + SumItemCount(Tail(bkts))

\* README.md:830  GET /api/stats
stats(s, header, random) ==
    LET auth == authenticateToken(header)
        mine == IF auth.status = 0 THEN userBuckets(s, auth.userId) ELSE << >>
    IN  IF auth.status # 0 THEN Result(auth, s)
        ELSE Result([status |-> 200, bucketsCount |-> Len(mine),
                     totalItems |-> SumItemCount(mine),
                     latency |-> random[1], uptime |-> "99.99%",
                     regions |-> [i \in 1..Len(mine) |-> mine[i].region]], s)

\* A health probe that clears the itemCount of every bucket.
healthResetting(s) ==
    Result([status |-> 200, health |-> "healthy", timestamp |-> now,
            version |-> "1.0.0"],
           [s EXCEPT !.buckets =
               [i \in 1..Len(@) |->
                   [@[i] EXCEPT !.value = [@ EXCEPT !.itemCount = 0]]]])

\* README.md:847  GET /api/health
health(s) ==
    Result([status |-> 200, health |-> "healthy", timestamp |-> now,
            version |-> "1.0.0"], s)

-----------------------------------------------------------------------------
(* The state machine. *)

Init ==
    /\ users = EmptyObject
    /\ buckets = EmptyObject
    /\ databases = EmptyObject
    /\ uuidCount = 0
    /\ now = 0
    /\ jwt = [c \in Clients |-> Undefined]
    /\ inflight = {}
    /\ responses = {}

\* The server runs the handler, which leaves its store. uuidv4() is called at
\* most MaxUuid times.
Serve(result) ==
    /\ result.store.uuidCount <= MaxUuid
    /\ users' = result.store.users
    /\ buckets' = result.store.buckets
    /\ databases' = result.store.databases
    /\ uuidCount' = result.store.uuidCount
    /\ UNCHANGED <<inflight, responses>>

\* register() and login() of the SDK: if (response.token) this.jwt = response.token
KeepToken(c, result) ==
    jwt' = IF result.res.status < 400 THEN [jwt EXCEPT ![c] = result.res.token]
           ELSE jwt

Register(c, email, password) ==
    LET result == register(Store, email, password, Missing)
    IN  Serve(result) /\ KeepToken(c, result) /\ UNCHANGED now

Login(c, email, password) ==
    LET result == login(Store, email, password)
    IN  Serve(result) /\ KeepToken(c, result) /\ UNCHANGED now

CreateBucket(header, name) ==
    Serve(createBucket(Store, header, name, Missing, Missing))
        /\ UNCHANGED <<now, jwt>>

ListBuckets(header) ==
    Serve(listBuckets(Store, header)) /\ UNCHANGED <<now, jwt>>

Write(header, bucketId, path, data) ==
    Serve(putData(Store, header, bucketId, path, data)) /\ UNCHANGED <<now, jwt>>

Read(header, bucketId, path) ==
    Serve(getData(Store, header, bucketId, path)) /\ UNCHANGED <<now, jwt>>

DeleteData(header, bucketId, path) ==
    Serve(deleteData(Store, header, bucketId, path)) /\ UNCHANGED <<now, jwt>>

List(header, bucketId) ==
    Serve(listItems(Store, header, bucketId)) /\ UNCHANGED <<now, jwt>>

BatchWrite(header, bucketId, items) ==
    Serve(batchWrite(Store, header, bucketId, items)) /\ UNCHANGED <<now, jwt>>

VectorSearch(header, bucketId, topK, random) ==
    Serve(vectorSearch(Store, header, bucketId, "q", topK, random))
        /\ UNCHANGED <<now, jwt>>

Stats(header, random) ==
    Serve(stats(Store, header, random)) /\ UNCHANGED <<now, jwt>>

Health == Serve(health(Store)) /\ UNCHANGED <<now, jwt>>

\* Time passes.
Tick ==
    /\ now + TickHours <= MaxTime
    /\ now' = now + TickHours
    /\ UNCHANGED <<users, buckets, databases, uuidCount, jwt, inflight, responses>>

\* The elements of the items array of a batch-write request: a path written
\* twice with different payloads, a second path, an item without data, null.
BatchItems ==
    {BatchItem("u", JObj(1)), BatchItem("u", JObj(10)), BatchItem("u/1", JObj(1)),
     BatchItem("u", Undefined), Null}

\* The items of a batch-write body: an array, or no array at all.
Batches ==
    {Array(elems) : elems \in UNION {[1..n -> BatchItems] : n \in 0..MaxBatch}}
        \cup {Undefined}

RegisterStep ==
    \E c \in Clients, e \in Emails \cup {Missing}, p \in Passwords :
        Register(c, e, p)

LoginStep ==
    \E c \in Clients, e \in Emails, p \in Passwords \cup {Missing} :
        Login(c, e, p)

CreateBucketStep ==
    \E h \in Headers, n \in BucketNames \cup {Missing} : CreateBucket(h, n)

ListBucketsStep == \E h \in Headers : ListBuckets(h)

\* A request the access checks reject is rejected whatever its path and body
\* are, so one path and one body stand for all of them.
Granted(h, b) == Access(Store, h, b).status = 0

WriteStep ==
    \E h \in Headers, b \in BucketIds :
        \E p \in IF Granted(h, b) THEN WritePaths ELSE {"u"},
           d \in IF Granted(h, b) THEN Payloads ELSE {JObj(1)} :
            Write(h, b, p, d)

ReadStep ==
    \E h \in Headers, b \in BucketIds :
        \E p \in IF Granted(h, b) THEN Paths ELSE {"u"} : Read(h, b, p)

DeleteStep ==
    \E h \in Headers, b \in BucketIds :
        \E p \in IF Granted(h, b) THEN Paths ELSE {"u"} : DeleteData(h, b, p)

ListStep == \E h \in Headers, b \in BucketIds : List(h, b)

BatchWriteStep ==
    \E h \in Headers, b \in BucketIds :
        \E items \in IF Granted(h, b) THEN Batches ELSE {Array(<< >>)} :
            BatchWrite(h, b, items)

\* What Math.random() returns, as one of two representatives of [0, 1).
Randoms == [1..Cardinality(WritePaths) -> {0, 1}]

\* topK of a vector-search body: absent, or a number.
TopKs == {Undefined, JNum(0), JNum(1), JNum(2), JNum(3)}

VectorSearchStep ==
    \E h \in Headers, b \in BucketIds :
        \E k \in IF Granted(h, b) THEN TopKs ELSE {Undefined},
           r \in IF Granted(h, b) THEN Randoms ELSE {[i \in 1..2 |-> 0]} :
            VectorSearch(h, b, k, r)

StatsStep == \E h \in Headers, r \in Randoms : Stats(h, r)

\* Every request but batch-write.
NextSingle ==
    \/ RegisterStep
    \/ LoginStep
    \/ CreateBucketStep
    \/ ListBucketsStep
    \/ WriteStep
    \/ ReadStep
    \/ DeleteStep
    \/ ListStep
    \/ VectorSearchStep
    \/ StatsStep
    \/ Health

\* Every request, at one instant.
Next == NextSingle \/ BatchWriteStep

Spec == Init /\ [][Next]_vars

SpecSingle == Init /\ [][NextSingle]_vars

-----------------------------------------------------------------------------
(* The server with its clock running. The requests are those of Next, on one *)
(* path, so that the timestamps and the expiry of tokens are what varies.    *)

ClockBatches == {Array(<<BatchItem("u", d)>>) : d \in Payloads}

ClockWriteStep ==
    \E h \in Headers, b \in BucketIds, d \in Payloads : Write(h, b, "u", d)

ClockReadStep == \E h \in Headers, b \in BucketIds : Read(h, b, "u")

ClockDeleteStep == \E h \in Headers, b \in BucketIds : DeleteData(h, b, "u")

ClockBatchWriteStep ==
    \E h \in Headers, b \in BucketIds, items \in ClockBatches :
        BatchWrite(h, b, items)

ClockVectorSearchStep ==
    \E h \in Headers, b \in BucketIds :
        VectorSearch(h, b, Undefined, [i \in 1..2 |-> 0])

ClockStatsStep == \E h \in Headers : Stats(h, [i \in 1..2 |-> 0])

NextClock ==
    \/ RegisterStep
    \/ LoginStep
    \/ CreateBucketStep
    \/ ListBucketsStep
    \/ ClockWriteStep
    \/ ClockReadStep
    \/ ClockDeleteStep
    \/ ListStep
    \/ ClockBatchWriteStep
    \/ ClockVectorSearchStep
    \/ ClockStatsStep
    \/ Health
    \/ Tick

SpecClock == Init /\ [][NextClock]_vars

-----------------------------------------------------------------------------
(* The server with requests in flight. A request is in flight from its       *)
(* arrival until its route handler runs; the handlers are synchronous        *)
(* functions, which node runs one at a time and each to its end, in any      *)
(* order of the requests in flight.                                          *)

\* The identifiers of the buckets that exist.
BucketKeys == {buckets[i].key : i \in 1..Len(buckets)}

\* The requests that are sent ahead of their handling.
RegisterRequest(id, email, password) ==
    [id |-> id, kind |-> "register", email |-> email, password |-> password]

PutRequest(id, header, bucketId, path, data) ==
    [id |-> id, kind |-> "put", header |-> header, bucketId |-> bucketId,
     path |-> path, data |-> data]

DeleteRequest(id, header, bucketId, path) ==
    [id |-> id, kind |-> "delete", header |-> header, bucketId |-> bucketId,
     path |-> path]

BatchRequest(id, header, bucketId, items) ==
    [id |-> id, kind |-> "batch", header |-> header, bucketId |-> bucketId,
     items |-> items]

\* The route handler of a request, run on store s.
Handler(s, r) ==
    CASE r.kind = "register" -> register(s, r.email, r.password, Missing)
      [] r.kind = "put" -> putData(s, r.header, r.bucketId, r.path, r.data)
      [] r.kind = "delete" -> deleteData(s, r.header, r.bucketId, r.path)
      [] r.kind = "batch" -> batchWrite(s, r.header, r.bucketId, r.items)

\* The number the next request gets.
NextId == Cardinality(inflight) + Cardinality(responses) + 1

\* A request arrives at the server.
Send(r) ==
    /\ r.id <= MaxRequests
    /\ inflight' = inflight \cup {r}
    /\ UNCHANGED <<users, buckets, databases, uuidCount, now, jwt, responses>>

\* The handler of a request in flight runs; the SDK keeps the token of a
\* register response.
Handle(r) ==
    LET result == Handler(Store, r)
    IN  /\ result.store.uuidCount <= MaxUuid
        /\ users' = result.store.users
        /\ buckets' = result.store.buckets
        /\ databases' = result.store.databases
        /\ uuidCount' = result.store.uuidCount
        /\ inflight' = inflight \ {r}
        /\ responses' = responses \cup {[req |-> r, res |-> result.res]}
        /\ jwt' = IF r.kind = "register" /\ result.res.status < 400
                  THEN [c \in Clients |-> result.res.token]
                  ELSE jwt
        /\ UNCHANGED now

\* The batches of the requests in flight: one item, two items on two paths,
\* an item followed by null.
RaceBatches ==
    {Array(<<BatchItem("u", JObj(1))>>),
     Array(<<BatchItem("u", JObj(10)), BatchItem("u/1", JObj(1))>>),
     Array(<<BatchItem("u/1", JObj(10)), Null>>)}

SendRegister ==
    \E e \in Emails, pw \in Passwords : Send(RegisterRequest(NextId, e, pw))

SendPut ==
    \E c \in Clients, b \in BucketKeys, p \in WritePaths, x \in Payloads :
        Send(PutRequest(NextId, getHeaders(c), b, p, x))

SendDelete ==
    \E c \in Clients, b \in BucketKeys, p \in WritePaths :
        Send(DeleteRequest(NextId, getHeaders(c), b, p))

SendBatch ==
    \E c \in Clients, b \in BucketKeys, items \in RaceBatches :
        Send(BatchRequest(NextId, getHeaders(c), b, items))

HandleStep == \E r \in inflight : Handle(r)

\* A client creates its bucket while no request is in flight.
RaceCreateBucket ==
    /\ inflight = {}
    /\ buckets = EmptyObject
    /\ \E c \in Clients, n \in BucketNames : CreateBucket(getHeaders(c), n)

NextRace ==
    \/ SendRegister
    \/ SendPut
    \/ SendDelete
    \/ SendBatch
    \/ HandleStep
    \/ RaceCreateBucket

SpecRace == Init /\ [][NextRace]_vars

-----------------------------------------------------------------------------
(* The properties. *)

\* The logins that are registered.
UserKeys == {users[i].key : i \in 1..Len(users)}

\* The header of a client that has just logged in as the user of login e.
HeaderOf(e) == Bearer(login(Store, e, Own(users, e).password).res.token)

\* The headers that authenticate a request: among those a request can carry
\* and those of the users who log in now.
Authenticated ==
    {h \in Headers \cup {HeaderOf(e) : e \in UserKeys} :
        authenticateToken(h).status = 0}

\* The headers that authenticate a request as the owner of bucket b, and as
\* somebody else.
OwnerHeaders(b) ==
    {h \in Authenticated : authenticateToken(h).userId = Own(buckets, b).owner}

StrangerHeaders(b) ==
    {h \in Authenticated : authenticateToken(h).userId # Own(buckets, b).owner}

\* The handler sent this response and left the store as it was.
Refused(result, response) == result.res = response /\ result.store = Store

\* C1: whatever writes (PUT) and deletes (DELETE), successful or failed, were
\* served, the itemCount of every bucket record is the number of entries the
\* list request returns for the bucket, which is the number of paths that live
\* in the bucket's partition.
C1_ItemCountIsListLength ==
    \A b \in BucketKeys :
        /\ Own(buckets, b).itemCount = Len(Items(Store, b))
        /\ Own(buckets, b).itemCount = Len(Own(databases, b))
        /\ \A h \in OwnerHeaders(b) :
              /\ listItems(Store, h, b).res.itemCount = Own(buckets, b).itemCount
              /\ Len(listItems(Store, h, b).res.items) = Own(buckets, b).itemCount

\* Two documents live in a bucket, "u" after "u/1": "u" was written second, or
\* was deleted and written again.
C1_Witness ==
    \E b \in BucketKeys :
        /\ Own(buckets, b).itemCount = 2
        /\ Keys(Own(databases, b)) = <<"u/1", "u">>

\* An element of a batch that names path p.
Names(item, p) == item.kind = "item" /\ item.path = p

\* The stores one more request can leave that is neither a write nor a delete
\* of path p of bucket b: writes and deletes of other paths, batches that do
\* not name p, a new bucket, a new user.
StoresAfterOther(s, h, b, p) ==
    {putData(s, h, b, q, d).store : q \in WritePaths \ {p}, d \in Payloads}
        \cup {deleteData(s, h, b, q).store : q \in Paths \ {p}}
        \cup {batchWrite(s, h, b, items).store :
                 items \in {a \in Batches \ {Undefined} :
                               \A i \in 1..Len(a.elems) : ~Names(a.elems[i], p)}}
        \cup {createBucket(s, h, n, Missing, Missing).store : n \in BucketNames}
        \cup {register(s, e, pw, Missing).store : e \in Emails, pw \in Passwords}

\* C2: the owner's write of payload x to path p of bucket b succeeds, and a
\* read of (b, p) by the owner then returns x, whatever was stored at p before,
\* also when another request that is no write or delete of (b, p) came between.
C2_ReadReturnsWhatWasWritten ==
    \A b \in BucketKeys : \A h \in OwnerHeaders(b) :
        \A p \in WritePaths, x \in Payloads :
            LET written == putData(Store, h, b, p, x)
            IN  /\ written.res.status = 200
                /\ getData(written.store, h, b, p).res.status = 200
                /\ getData(written.store, h, b, p).res.data = x
                /\ \A s \in StoresAfterOther(written.store, h, b, p) :
                      getData(s, h, b, p).res.data = x

\* Path "u" holds {n: 10} one step after it held {n: 1}: the document of "u"
\* was overwritten, and the owner reads the new payload.
C2_Witness ==
    \E b \in BucketKeys : \E h \in OwnerHeaders(b) :
        /\ Keys(Own(databases, b)) = <<"u", "u/1">>
        /\ getData(Store, h, b, "u").res.data = JObj(10)
        /\ getData(Store, h, b, "u/1").res.data = JObj(1)
        /\ getData(putData(Store, h, b, "u", JObj(1)).store, h, b, "u").res.data
              = JObj(1)

\* C3: every read, write, delete, list, batch-write and vector-search request
\* on an existing bucket by an authenticated principal who is not its owner is
\* answered 403 Access denied and changes nothing, whether the path it names
\* exists in the bucket or not.
C3_CrossTenantForbidden ==
    \A b \in BucketKeys : \A h \in StrangerHeaders(b) :
        LET Forbidden == Error(403, "Access denied")
        IN  /\ \A p \in Paths : Refused(getData(Store, h, b, p), Forbidden)
            /\ \A p \in Paths, x \in Payloads :
                  Refused(putData(Store, h, b, p, x), Forbidden)
            /\ \A p \in Paths : Refused(deleteData(Store, h, b, p), Forbidden)
            /\ Refused(listItems(Store, h, b), Forbidden)
            /\ \A items \in Batches :
                  Refused(batchWrite(Store, h, b, items), Forbidden)
            /\ \A k \in TopKs, r \in Randoms :
                  Refused(vectorSearch(Store, h, b, "q", k, r), Forbidden)

\* A principal who does not own a bucket holds a valid token, and the bucket
\* has a document at "u" and none at "u/1".
C3_Witness ==
    \E b \in BucketKeys :
        /\ StrangerHeaders(b) # {}
        /\ Keys(Own(databases, b)) = <<"u">>

\* C4: when the owner's delete of path p of bucket b has succeeded, a second
\* delete of (b, p) with no write in between is answered 404 Data not found,
\* and leaves the documents and the itemCount of the bucket as they were.
C4_SecondDeleteNotFound ==
    \A b \in BucketKeys : \A h \in OwnerHeaders(b) : \A p \in Paths :
        LET first == deleteData(Store, h, b, p)
            second == deleteData(first.store, h, b, p)
        IN  first.res.status = 200 =>
                /\ second.res = Error(404, "Data not found")
                /\ second.store = first.store

\* C5: the owner's read of path p of bucket b succeeds if and only if a
\* document exists at exactly p; otherwise it is answered 404 Data not found,
\* also when p was deleted and when only a longer or a shorter path exists.
C5_ReadSucceedsIffDocumentExists ==
    \A b \in BucketKeys : \A h \in OwnerHeaders(b) : \A p \in Paths :
        LET read == getData(Store, h, b, p)
        IN  IF HasOwn(Own(databases, b), p)
            THEN read.res.status = 200
            ELSE read.res = Error(404, "Data not found")

\* The buckets whose owner is principal P.
OwnedBuckets(P) == {b \in BucketKeys : Own(buckets, b).owner = P}

\* The bucketIds of a list of bucket records.
Ids(list) == {list[i].bucketId : i \in 1..Len(list)}

\* C6: for every principal P, listBuckets(P) is exactly the buckets P created,
\* each once: a bucket that P creates is in P's list and in nobody else's, the
\* list is empty when P created none, and a bucket never leaves its creator's
\* list, since no request removes a bucket or changes its owner.
C6_ListBucketsIsOwnBuckets ==
    /\ [](\A h \in Authenticated :
            LET P == authenticateToken(h).userId
                listed == listBuckets(Store, h).res
            IN  /\ listed.status = 200
                /\ Ids(listed.buckets) = OwnedBuckets(P)
                /\ Len(listed.buckets) = Cardinality(OwnedBuckets(P))
                /\ \A i \in 1..Len(listed.buckets) :
                      listed.buckets[i] = Own(buckets, listed.buckets[i].bucketId)
                /\ OwnedBuckets(P) = {} => listed.buckets = << >>
                /\ \A n \in BucketNames :
                      LET created == createBucket(Store, h, n, Missing, Missing)
                      IN  /\ created.res.status = 201
                          /\ created.res.bucketId \notin BucketKeys
                          /\ \A g \in Authenticated :
                                created.res.bucketId
                                    \in Ids(listBuckets(created.store, g).res.buckets)
                                <=> authenticateToken(g).userId = P)
    /\ [][\A b \in BucketKeys :
            /\ b \in BucketKeys'
            /\ Own(buckets', b).owner = Own(buckets, b).owner]_vars

\* Two principals are registered; one of them created a bucket, which is the
\* one bucket of their list, and the list of the other is empty.
C6_Witness ==
    \E g \in Authenticated, h \in Authenticated :
        /\ Len(listBuckets(Store, g).res.buckets) = 1
        /\ listBuckets(Store, g).res.buckets[1].owner = authenticateToken(g).userId
        /\ authenticateToken(h).userId # authenticateToken(g).userId
        /\ listBuckets(Store, h).res.buckets = << >>

\* C7: a register with a login that is registered is answered 409 User already
\* exists and changes nothing; there is one user record per login, no request
\* ever changes a user record, and the password the login was registered with
\* still logs in, as the same userId.
C7_DuplicateRegisterConflict ==
    /\ [](/\ Cardinality(UserKeys) = Len(users)
          /\ \A e \in UserKeys : \A pw \in Passwords :
                LET again == register(Store, e, pw, Missing)
                    kept == login(again.store, e, Own(users, e).password)
                IN  /\ Refused(again, Error(409, "User already exists"))
                    /\ kept.res.status = 200
                    /\ kept.res.userId = Own(users, e).userId)
    /\ [][\A e \in UserKeys :
            e \in UserKeys' /\ Own(users', e) = Own(users, e)]_vars

\* A login is registered with password "pw", a second user exists, and a
\* register of the first login with another password is answered 409.
C7_Witness ==
    \E e \in UserKeys :
        /\ Own(users, e).password = "pw"
        /\ Len(users) = 2
        /\ register(Store, e, "pw2", Missing).res.status = 409

\* C8: a login with a login name and a password succeeds if and only if the
\* login name is registered and the password is the one it was registered
\* with; any other login is answered 401 Invalid credentials, carries no token
\* and changes nothing. (A login without a password is answered 400.)
C8_LoginIffRegisteredSecret ==
    /\ \A e \in Emails, pw \in Passwords :
          LET result == login(Store, e, pw)
              registered == e \in UserKeys /\ Own(users, e).password = pw
          IN  /\ result.res.status = 200 <=> registered
              /\ result.store = Store
              /\ ~registered =>
                    /\ result.res = Error(401, "Invalid credentials")
                    /\ "token" \notin DOMAIN result.res
    /\ \A e \in Emails \ UserKeys, pw \in Passwords :
          LET new == register(Store, e, pw, Missing)
          IN  new.res.status = 201 =>
                  /\ login(new.store, e, pw).res.status = 200
                  /\ \A other \in Passwords \ {pw} :
                        login(new.store, e, other).res.status = 401
    /\ \A e \in Emails :
          Refused(login(Store, e, Missing),
                  Error(400, "Email and password required"))

\* One login is registered and another is not: the right password logs in, a
\* wrong password and the unregistered login are answered 401.
C8_Witness ==
    \E e \in UserKeys : \E f \in Emails \ UserKeys :
        /\ login(Store, e, Own(users, e).password).res.status = 200
        /\ \E pw \in Passwords : login(Store, e, pw).res.status = 401
        /\ login(Store, f, "pw").res.status = 401

\* What the middleware hands to the handler when it authenticates P.
AuthenticatedAs(P) == [status |-> 0, userId |-> P]

\* C9: the token a successful register or login returns carries the userId of
\* the user who registered or logged in, a login returns the userId the
\* register of that login assigned, and a token that has not expired
\* authenticates its request as that user, whose userId no other user has.
C9_TokenCarriesPrincipal ==
    /\ \A e \in Emails \ UserKeys, pw \in Passwords :
          LET new == register(Store, e, pw, Missing)
          IN  new.res.status = 201 =>
                  /\ new.res.token.userId = new.res.userId
                  /\ Own(new.store.users, e).userId = new.res.userId
                  /\ \A f \in UserKeys : Own(users, f).userId # new.res.userId
                  /\ login(new.store, e, pw).res.userId = new.res.userId
                  /\ authenticateToken(Bearer(new.res.token))
                        = AuthenticatedAs(new.res.userId)
    /\ \A e \in UserKeys :
          LET session == login(Store, e, Own(users, e).password)
          IN  /\ session.res.status = 200
              /\ session.res.userId = Own(users, e).userId
              /\ session.res.token.userId = Own(users, e).userId
              /\ authenticateToken(Bearer(session.res.token))
                    = AuthenticatedAs(Own(users, e).userId)
    /\ \A c \in Clients :
          Truthy(jwt[c]) =>
              /\ jwt[c].email \in UserKeys
              /\ jwt[c].userId = Own(users, jwt[c].email).userId
              /\ now < jwt[c].exp =>
                    authenticateToken(getHeaders(c)) = AuthenticatedAs(jwt[c].userId)
    /\ \A e \in UserKeys, f \in UserKeys :
          Own(users, e).userId = Own(users, f).userId => e = f

\* Twelve hours after a client got its token, and after a second user
\* registered, the token authenticates the client as the user it was issued to.
C9_Witness ==
    \E c \in Clients :
        /\ Truthy(jwt[c])
        /\ jwt[c].iat = 0
        /\ now = TickHours
        /\ Len(users) = 2
        /\ authenticateToken(getHeaders(c))
              = AuthenticatedAs(Own(users, jwt[c].email).userId)

\* Every endpoint behind authenticateToken, for every request with header h,
\* sent this response and changed nothing.
Gate(h, response) ==
    /\ \A n \in BucketNames \cup {Missing} :
          Refused(createBucket(Store, h, n, Missing, Missing), response)
    /\ Refused(listBuckets(Store, h), response)
    /\ \A r \in Randoms : Refused(stats(Store, h, r), response)
    /\ \A b \in BucketIds :
          /\ \A p \in Paths, x \in Payloads :
                Refused(putData(Store, h, b, p, x), response)
          /\ \A p \in Paths : Refused(getData(Store, h, b, p), response)
          /\ \A p \in Paths : Refused(deleteData(Store, h, b, p), response)
          /\ Refused(listItems(Store, h, b), response)
          /\ \A items \in Batches :
                Refused(batchWrite(Store, h, b, items), response)
          /\ \A k \in TopKs, r \in Randoms :
                Refused(vectorSearch(Store, h, b, "q", k, r), response)

\* The tokens of the clients and of the users who log in now.
Tokens ==
    {jwt[c] : c \in {d \in Clients : Truthy(jwt[d])}}
        \cup {login(Store, e, Own(users, e).password).res.token : e \in UserKeys}

\* C10: on every endpoint that requires authentication, a request without a
\* bearer token is answered 401 No token provided, a request whose token is no
\* JWT, is signed with another key or has expired is answered 403 Invalid
\* token, and neither request changes anything: the handler does not run.
C10_AuthGate ==
    /\ \A h \in {NoHeader, Bearer(Undefined)} :
          Gate(h, Error(401, "No token provided"))
    /\ Gate(Bearer(Garbage), Error(403, "Invalid token"))
    /\ \A t \in Tokens :
          /\ Gate(Bearer(Forged(t)), Error(403, "Invalid token"))
          /\ now >= t.exp => Gate(Bearer(t), Error(403, "Invalid token"))

\* The token of a client has expired; the client owns a bucket with a document
\* at "u", and its read of that document is answered 403 Invalid token.
C10_Witness ==
    \E c \in Clients : \E b \in BucketKeys :
        /\ Truthy(jwt[c])
        /\ now >= jwt[c].exp
        /\ Own(buckets, b).owner = jwt[c].userId
        /\ HasOwn(Own(databases, b), "u")
        /\ getData(Store, getHeaders(c), b, "u").res = Error(403, "Invalid token")

\* The batches whose items field is an array.
ArrayBatches == Batches \ {Undefined}

\* C11: after every batch-write request on a bucket, also one that fails
\* partway on an item that is null or has no data, the itemCount of the bucket
\* is the number of paths that live in the bucket.
C11_BatchItemCountIsLiveCount ==
    \A b \in BucketKeys : \A h \in OwnerHeaders(b) : \A items \in ArrayBatches :
        LET after == batchWrite(Store, h, b, items).store
        IN  Own(after.buckets, b).itemCount = Len(Own(after.databases, b))

\* The number of items of a batch before the first one that throws.
Committed(elems) ==
    IF \E i \in 1..Len(elems) : Throws(elems[i])
    THEN (CHOOSE i \in 1..Len(elems) :
              Throws(elems[i]) /\ \A j \in 1..(i - 1) : ~Throws(elems[j])) - 1
    ELSE Len(elems)

\* The items among the first k of a batch that name path p.
Naming(elems, k, p) == {i \in 1..k : Names(elems[i], p)}

\* The greatest element of a non-empty set of numbers.
Last(S) == CHOOSE i \in S : \A j \in S : j <= i

Stored(s, b, item) ==
    /\ item.kind = "item"
    /\ HasJson(item.data)
    /\ HasOwn(Own(s.databases, b), item.path)

C14_BatchStatusPerItem ==
    \A b \in BucketKeys : \A h \in OwnerHeaders(b) : \A items \in ArrayBatches :
        LET elems == items.elems
            response == batchWrite(Store, h, b, items).res
        IN  /\ "results" \in DOMAIN response
            /\ Len(response.results) = Len(elems)
            /\ \A i \in 1..Len(elems) :
                  /\ response.results[i].status
                        = IF Throws(elems[i]) THEN "failed" ELSE "success"
                  /\ elems[i].kind = "item"
                        => response.results[i].path = elems[i].path

\* The document at path p of bucket b in store s.
Document(s, b, p) == Own(Own(s.databases, b), p)

\* The document at path p after the request is the payload x written now, with
\* the createdAt of the document that was at p before, if there was one.
Rewritten(after, b, p, x) ==
    /\ Document(after, b, p).data = x
    /\ Document(after, b, p).updatedAt = now
    /\ Document(after, b, p).createdAt
          = IF HasOwn(Own(databases, b), p)
            THEN Document(Store, b, p).createdAt
            ELSE now

\* C15: a write, or an item of a batch-write, to a path that holds a document
\* replaces the payload and updatedAt and keeps the createdAt of the document;
\* createdAt is the time of the write only when the path held no document.
C15_CreatedAtKept ==
    \A b \in BucketKeys : \A h \in OwnerHeaders(b) :
        \A p \in WritePaths, x \in Payloads :
            /\ Rewritten(putData(Store, h, b, p, x).store, b, p, x)
            /\ Rewritten(batchWrite(Store, h, b, Array(<<BatchItem(p, x)>>)).store,
                         b, p, x)

\* The bucketIds that have a document partition.
DatabaseKeys == {databases[i].key : i \in 1..Len(databases)}

\* Sequence old is an initial part of sequence new.
IsPrefix(old, new) == Len(old) <= Len(new) /\ SubSeq(new, 1, Len(old)) = old

\* C16: a createBucket of an authenticated principal answers 201 with a
\* bucketId that no bucket has, whose record has the caller as owner and
\* itemCount 0 and whose partition is empty, and leaves every other bucket
\* record and partition as it was; in every reachable state a bucketId has a
\* bucket record if and only if it has a partition, and has one of each.
C16_CreateBucketFresh ==
    /\ BucketKeys = DatabaseKeys
    /\ Len(buckets) = Cardinality(BucketKeys)
    /\ Len(databases) = Cardinality(DatabaseKeys)
    /\ \A h \in Authenticated : \A n \in BucketNames :
          LET result == createBucket(Store, h, n, Missing, Missing)
              id == result.res.bucketId
          IN  /\ result.res.status = 201
              /\ id \notin BucketKeys
              /\ id \notin DatabaseKeys
              /\ Own(result.store.buckets, id).owner = authenticateToken(h).userId
              /\ Own(result.store.buckets, id).itemCount = 0
              /\ Own(result.store.buckets, id).bucketId = id
              /\ Own(result.store.databases, id) = EmptyObject
              /\ IsPrefix(buckets, result.store.buckets)
              /\ IsPrefix(databases, result.store.databases)
              /\ Len(result.store.buckets) = Len(buckets) + 1
              /\ Len(result.store.databases) = Len(databases) + 1
              /\ result.store.users = users

\* A principal created a bucket, wrote a document to it and created a second
\* bucket: the first bucket kept its document, the second one is empty.
C16_Witness ==
    /\ Len(buckets) = 2
    /\ buckets[1].value.owner = buckets[2].value.owner
    /\ buckets[1].key # buckets[2].key
    /\ Keys(databases[1].value) = <<"u/1">>
    /\ databases[2].value = EmptyObject
    /\ buckets[1].value.itemCount = 1
    /\ buckets[2].value.itemCount = 0

\* C17: every write, read, delete, list, batch-write and vector-search of an
\* authenticated caller on a bucketId that createBucket never returned is
\* answered 404 Bucket not found and creates neither a bucket record nor a
\* partition; 403 is kept for buckets that exist and belong to somebody else.
C17_UnknownBucketNotFound ==
    \A h \in Authenticated : \A b \in BucketIds \ BucketKeys :
        LET NotFound == Error(404, "Bucket not found")
        IN  /\ \A p \in Paths, x \in Payloads :
                  Refused(putData(Store, h, b, p, x), NotFound)
            /\ \A p \in Paths : Refused(getData(Store, h, b, p), NotFound)
            /\ \A p \in Paths : Refused(deleteData(Store, h, b, p), NotFound)
            /\ Refused(listItems(Store, h, b), NotFound)
            /\ \A items \in Batches :
                  Refused(batchWrite(Store, h, b, items), NotFound)
            /\ \A k \in TopKs, r \in Randoms :
                  Refused(vectorSearch(Store, h, b, "q", k, r), NotFound)

\* The entries the owner's list request returns for bucket b in store s, and
\* their paths.
Listed(s, h, b) == listItems(s, h, b).res.items

ListedPaths(s, h, b) == {Listed(s, h, b)[i].path : i \in 1..Len(Listed(s, h, b))}

\* The paths that hold a document in bucket b of store s.
LivePaths(s, b) == {Own(s.databases, b)[i].key : i \in 1..Len(Own(s.databases, b))}

ReadSize(s, h, b, p) == getData(s, h, b, p).res.metadata.size

ListSize(s, h, b, p) ==
    LET entries == Listed(s, h, b)
    IN  entries[CHOOSE i \in 1..Len(entries) : entries[i].path = p].size

\* The length of JSON.stringify(x).
Serialized(x) == Len(Stringify(x))

RECURSIVE LiveDocuments(_, _)
LiveDocuments(n, P) ==
    IF n = 0 THEN 0
    ELSE LiveDocuments(n - 1, P)
            + IF buckets[n].value.owner = P
              THEN Len(Own(databases, buckets[n].key))
              ELSE 0

\* The sum of the itemCount of the first n buckets that principal P owns.
RECURSIVE CountedItems(_, _)
CountedItems(n, P) ==
    IF n = 0 THEN 0
    ELSE CountedItems(n - 1, P)
            + IF buckets[n].value.owner = P THEN buckets[n].value.itemCount ELSE 0

\* C20: the stats of principal P report as bucketsCount the number of buckets
\* P owns and as totalItems the sum of their itemCount, which is the number of
\* live documents in P's buckets; other principals' buckets do not count.
C20_StatsCountOwnBuckets ==
    \A h \in Authenticated : \A r \in Randoms :
        LET P == authenticateToken(h).userId
            response == stats(Store, h, r).res
        IN  /\ response.status = 200
            /\ response.bucketsCount = Cardinality(OwnedBuckets(P))
            /\ response.totalItems = CountedItems(Len(buckets), P)
            /\ response.totalItems = LiveDocuments(Len(buckets), P)

\* What a batch-write body can carry as items when it is no array.
NoArrays == {Undefined, Null, JObj(1), JNum(1)}

\* C21: a request that lacks a required field is answered 400 and changes
\* nothing: a register or a login without email or without password, a
\* createBucket without name, a batch-write whose items is not an array.
C21_MissingFieldBadRequest ==
    /\ \A e \in Emails \cup {Missing}, pw \in Passwords \cup {Missing} :
          e = Missing \/ pw = Missing =>
              /\ Refused(register(Store, e, pw, Missing),
                         Error(400, "Email and password required"))
              /\ Refused(login(Store, e, pw),
                         Error(400, "Email and password required"))
    /\ \A h \in Authenticated :
          Refused(createBucket(Store, h, Missing, Missing, Missing),
                  Error(400, "Bucket name required"))
    /\ \A b \in BucketKeys : \A h \in OwnerHeaders(b) : \A items \in NoArrays :
          Refused(batchWrite(Store, h, b, items),
                  Error(400, "Items must be an array"))

\* A user holds a bucket with a document; a register without email, a
\* createBucket without name and a batch-write without items are answered 400.
C21_Witness ==
    \E b \in BucketKeys : \E h \in OwnerHeaders(b) :
        /\ Keys(Own(databases, b)) = <<"u">>
        /\ register(Store, Missing, "pw", Missing).res.status = 400
        /\ createBucket(Store, h, Missing, Missing, Missing).res.status = 400
        /\ batchWrite(Store, h, b, Undefined).res.status = 400

\* The register requests for login e that have been answered.
Registrations(e) ==
    {x \in responses : x.req.kind = "register" /\ x.req.email = e}

\* C22: when two (or more) register requests for one login were in flight, in
\* whatever order their handlers ran, exactly one of them was answered 201 and
\* the others 409 User already exists, and the user record holds the password
\* and the userId of the one that was answered 201.
C22_ConcurrentRegisterOneWins ==
    \A e \in Emails :
        Cardinality(Registrations(e)) >= 2 =>
            \E w \in Registrations(e) :
                /\ w.res.status = 201
                /\ \A x \in Registrations(e) \ {w} :
                      x.res = Error(409, "User already exists")
                /\ HasOwn(users, e)
                /\ Own(users, e).password = w.req.password
                /\ Own(users, e).userId = w.res.userId

\* The write, delete and batch-write requests on bucket b that were answered.
Mutations(b) ==
    {x.req : x \in {y \in responses :
                       /\ y.req.kind \in {"put", "delete", "batch"}
                       /\ y.req.bucketId = b}}

\* The sequential orders of a set of requests.
Orders(S) ==
    {order \in [1..Cardinality(S) -> S] :
        \A i, j \in 1..Cardinality(S) : order[i] = order[j] => i = j}

\* The store after the handlers of a sequence of requests ran one by one.
RECURSIVE ApplyAll(_, _)
ApplyAll(s, order) ==
    IF order = << >> THEN s
    ELSE ApplyAll(Handler(s, Head(order)).store, Tail(order))

\* The store with bucket b as createBucket left it.
Emptied(b) ==
    [Store EXCEPT !.databases = Set(@, b, EmptyObject),
                  !.buckets = Set(@, b, [Own(@, b) EXCEPT !.itemCount = 0])]

\* C23: when the write, delete and batch-write requests that were in flight on
\* a bucket have all been answered, the documents of the bucket are those that
\* some sequential order of the requests leaves, and the itemCount of the
\* bucket is the number of its live documents.
C23_ConcurrentMutationsSerial ==
    inflight = {} =>
        \A b \in BucketKeys :
            /\ \E order \in Orders(Mutations(b)) :
                  Own(ApplyAll(Emptied(b), order).databases, b) = Own(databases, b)
            /\ Own(buckets, b).itemCount = Len(Own(databases, b))

\* C24: once a bucket exists it is never removed and its owner never changes:
\* in every step, whoever sent the request, every bucket is still there with
\* the same owner (and the same bucketId, name, durability, region and
\* createdAt; itemCount is the one field that is written after the creation).
C24_OwnerImmutable ==
    [][\A i \in 1..Len(buckets) :
          /\ Len(buckets') >= i
          /\ buckets'[i].key = buckets[i].key
          /\ buckets'[i].value.owner = buckets[i].value.owner
          /\ [buckets'[i].value EXCEPT !.itemCount = 0]
                = [buckets[i].value EXCEPT !.itemCount = 0]]_vars

\* A bucket whose record was written after its creation (its itemCount is 2)
\* belongs to a registered user, and a second user is registered.
C24_Witness ==
    \E b \in BucketKeys : \E e \in UserKeys :
        /\ Own(buckets, b).itemCount = 2
        /\ Own(buckets, b).owner = Own(users, e).userId
        /\ Len(users) = 2
        /\ StrangerHeaders(b) # {}

\* The step is a delete of path p of bucket b, sent by the owner of b and
\* answered 200.
SuccessfulDelete(b, p) ==
    \E h \in OwnerHeaders(b) :
        /\ deleteData(Store, h, b, p).res.status = 200
        /\ DeleteData(h, b, p)

\* C25: the live documents of a bucket shrink only by a successful delete of
\* the owner: in every step, a path that is live before the step is live after
\* it, unless the step is the owner's successful delete of that very path.
C25_ShrinkOnlyByDelete ==
    [][\A i \in 1..Len(databases) :
          \A p \in LivePaths(Store, databases[i].key) :
              \/ /\ Len(databases') >= i
                 /\ databases'[i].key = databases[i].key
                 /\ HasOwn(databases'[i].value, p)
              \/ SuccessfulDelete(databases[i].key, p)]_vars

\* A bucket holds documents at "u" and "u/1", written in that order, and the
\* owner's delete of "u" leaves the document at "u/1" alone.
C25_Witness ==
    \E b \in BucketKeys : \E h \in OwnerHeaders(b) :
        /\ Keys(Own(databases, b)) = <<"u", "u/1">>
        /\ deleteData(Store, h, b, "u").res.status = 200
        /\ LivePaths(deleteData(Store, h, b, "u").store, b) = {"u/1"}

\* The values the clock has had up to now.
Past == {t \in 0..now : t % TickHours = 0}

\* The token a register or login of the user of login e returned at time t.
TokenIssued(e, t) ==
    [kind |-> "jwt", userId |-> Own(users, e).userId, email |-> e, iat |-> t,
     exp |-> t + ExpiresInHours, key |-> JWT_SECRET]

\* C26: a token authenticates its user at every time before iat + 24 hours and
\* at no time from then on, in every state the server can reach: whatever
\* logins, registers and bucket or document requests came after its issue, the
\* answer of authenticateToken depends on the token and the clock alone.
C26_TokenValidityWindow ==
    /\ \A e \in UserKeys :
          /\ login(Store, e, Own(users, e).password).res.token = TokenIssued(e, now)
          /\ \A t \in {u \in Past : u >= Own(users, e).createdAt} :
                authenticateToken(Bearer(TokenIssued(e, t)))
                    = IF now < t + ExpiresInHours
                      THEN AuthenticatedAs(Own(users, e).userId)
                      ELSE Error(403, "Invalid token")
    /\ \A c \in Clients :
          Truthy(jwt[c]) =>
              /\ jwt[c].email \in UserKeys
              /\ jwt[c].iat \in Past
              /\ jwt[c].iat >= Own(users, jwt[c].email).createdAt
              /\ jwt[c] = TokenIssued(jwt[c].email, jwt[c].iat)

\* Twenty-four hours after a user registered and twelve hours after the user
\* logged in again: the token of the login authenticates, the token of the
\* register no longer does, and the user wrote a document in between.
C26_Witness ==
    \E c \in Clients : \E b \in BucketKeys :
        /\ Truthy(jwt[c])
        /\ jwt[c].iat = TickHours
        /\ now = 2 * TickHours
        /\ Own(users, jwt[c].email).createdAt = 0
        /\ authenticateToken(getHeaders(c)).status = 0
        /\ authenticateToken(Bearer(TokenIssued(jwt[c].email, 0))).status = 403
        /\ Own(buckets, b).owner = jwt[c].userId
        /\ Own(buckets, b).itemCount = 1

\* C27: the token check and every read-only request leave the store as it is,
\* whatever header the request carries and whether it succeeds or fails:
\* login, listBuckets, read, list, vector-search, stats and health change no
\* user, no bucket record and no document; health is answered 200 without a
\* token.
C27_ReadOnlyFrame ==
    /\ \A e \in Emails \cup {Missing}, pw \in Passwords \cup {Missing} :
          login(Store, e, pw).store = Store
    /\ health(Store).store = Store
    /\ health(Store).res.status = 200
    /\ \A h \in Headers \cup Authenticated :
          /\ listBuckets(Store, h).store = Store
          /\ \A r \in Randoms : stats(Store, h, r).store = Store
          /\ \A b \in BucketIds :
                /\ \A p \in Paths : getData(Store, h, b, p).store = Store
                /\ listItems(Store, h, b).store = Store
                /\ \A k \in TopKs, r \in Randoms :
                      vectorSearch(Store, h, b, "q", k, r).store = Store

\* The owner of a bucket with two documents reads, lists, searches and asks
\* for stats, all answered 200, and the health probe is answered 200.
C27_Witness ==
    \E b \in BucketKeys : \E h \in OwnerHeaders(b) :
        /\ Own(buckets, b).itemCount = 2
        /\ getData(Store, h, b, "u").res.status = 200
        /\ listItems(Store, h, b).res.status = 200
        /\ vectorSearch(Store, h, b, "q", Undefined, [i \in 1..2 |-> 0]).res.status
              = 200
        /\ stats(Store, h, [i \in 1..2 |-> 0]).res.totalItems = 2
        /\ listBuckets(Store, h).res.status = 200
        /\ health(Store).res.status = 200

\* C28: the owner's vector-search returns at most topK results for every topK
\* of the request, zero included, at most 10 when the request has no topK, and
\* every result is a live document of the bucket with its current payload.
C28_VectorSearchAtMostTopK ==
    \A b \in BucketKeys : \A h \in OwnerHeaders(b) :
        \A k \in TopKs, r \in Randoms :
            LET response == vectorSearch(Store, h, b, "q", k, r).res
            IN  /\ response.status = 200
                /\ Len(response.results)
                      <= IF k.kind = "undefined" THEN 10 ELSE k.num
                /\ \A i \in 1..Len(response.results) :
                      /\ response.results[i].path \in LivePaths(Store, b)
                      /\ response.results[i].data
                            = Document(Store, b, response.results[i].path).data

\* The request was answered 403 or 404.
Rejected(result) == result.res.status \in {403, 404}

\* C29: the bucket and owner checks run before the store is touched. A write,
\* delete or batch-write of a principal who does not own the bucket, and every
\* document request that is answered 403 or 404, whoever sent it and whatever
\* bucket it names, leaves all documents, bucket records and itemCounts as
\* they were.
C29_GateBeforeStorage ==
    /\ \A b \in BucketKeys : \A h \in StrangerHeaders(b) :
          /\ \A p \in Paths, x \in Payloads : putData(Store, h, b, p, x).store = Store
          /\ \A p \in Paths : deleteData(Store, h, b, p).store = Store
          /\ \A items \in Batches : batchWrite(Store, h, b, items).store = Store
    /\ \A h \in Headers \cup Authenticated : \A b \in BucketIds :
          /\ \A p \in Paths, x \in Payloads :
                LET result == putData(Store, h, b, p, x)
                IN  Rejected(result) => result.store = Store
          /\ \A p \in Paths :
                /\ Rejected(getData(Store, h, b, p))
                      => getData(Store, h, b, p).store = Store
                /\ Rejected(deleteData(Store, h, b, p))
                      => deleteData(Store, h, b, p).store = Store
          /\ Rejected(listItems(Store, h, b)) => listItems(Store, h, b).store = Store
          /\ \A items \in Batches :
                LET result == batchWrite(Store, h, b, items)
                IN  Rejected(result) => result.store = Store
          /\ \A k \in TopKs, r \in Randoms :
                LET result == vectorSearch(Store, h, b, "q", k, r)
                IN  Rejected(result) => result.store = Store

\* A bucket with a document at "u": a stranger's write and delete of "u" are
\* answered 403, the owner's delete of "u/1" is answered 404.
C29_Witness ==
    \E b \in BucketKeys : \E h \in StrangerHeaders(b) : \E o \in OwnerHeaders(b) :
        /\ Keys(Own(databases, b)) = <<"u">>
        /\ putData(Store, h, b, "u", JObj(10)).res.status = 403
        /\ deleteData(Store, h, b, "u").res.status = 403
        /\ deleteData(Store, o, b, "u/1").res.status = 404

\* Bucket b has in store s the record and the documents it has now.
Untouched(s, b) ==
    /\ Own(s.buckets, b) = Own(buckets, b)
    /\ Own(s.databases, b) = Own(databases, b)

\* C30: paths are scoped to their bucket. A write, delete or batch-write on
\* one bucket changes no document and no itemCount of any other bucket, also
\* when the other bucket has the same owner and name and holds the same path.
C30_PathsScopedToBucket ==
    \A b1 \in BucketKeys : \A h \in OwnerHeaders(b1) :
        \A b2 \in BucketKeys \ {b1} :
            /\ \A p \in WritePaths, x \in Payloads :
                  Untouched(putData(Store, h, b1, p, x).store, b2)
            /\ \A p \in Paths : Untouched(deleteData(Store, h, b1, p).store, b2)
            /\ \A items \in Batches :
                  Untouched(batchWrite(Store, h, b1, items).store, b2)

\* Two buckets of one owner and one name hold different documents at "u"; a
\* write of a third payload to "u" of the first bucket changes that bucket.
C30_Witness ==
    \E b1 \in BucketKeys, b2 \in BucketKeys : \E h \in OwnerHeaders(b1) :
        /\ b1 # b2
        /\ Own(buckets, b1).owner = Own(buckets, b2).owner
        /\ Own(buckets, b1).name = Own(buckets, b2).name
        /\ Keys(Own(databases, b1)) = <<"u">>
        /\ Keys(Own(databases, b2)) = <<"u">>
        /\ Document(Store, b1, "u").data = JObj(1)
        /\ Document(Store, b2, "u").data = JObj(10)
        /\ Document(deleteData(Store, h, b1, "u").store, b2, "u").data = JObj(10)

====
